---- MODULE Spec2Model ----
(***************************************************************************)
(* A model of pytorch_lightning/accelerators/accelerator.py: the           *)
(* Accelerator, a coordinator that forwards every lifecycle call to a      *)
(* training-type plugin and a precision plugin in a fixed order.           *)
(*                                                                         *)
(* The two plugins, the lightning module and the trainer are external      *)
(* collaborators.  Every value one of them returns is drawn from a small   *)
(* set, and every call to one of them may raise.  Each Accelerator method  *)
(* is an operator from the Accelerator's state (a record, "self") and the  *)
(* environment's choices ("env") to the state the method leaves behind;    *)
(* the record also carries the trace of the calls the method made.         *)
(***************************************************************************)
EXTENDS Integers, Sequences, FiniteSets, TLC

\* ------------------------------------------------------------------ bounds

\* init_optimizers builds at most this many optimizers.
MaxOptimizers == 2
\* The lifecycle operations (setup, pre_dispatch, setup_optimizers,
\* _move_optimizer_state) are called at most this often in a run.
MaxRun == 2

\* ------------------------------------------------------------------ values

None == "None"

\* trainer.state.fn
TrainerFn == {"FITTING", "VALIDATING", "TESTING", "PREDICTING", "TUNING"}

Devices == {"cpu", "cuda:0"}

\* The classes amp_backend tells apart: ApexMixedPrecisionPlugin,
\* NativeMixedPrecisionPlugin, and every other PrecisionPlugin.
PrecisionKinds == {"apex", "native", "other"}

\* What connect() does to an object it wraps: object k becomes object
\* k + Wrapped; wrapping a wrapped object gives the same wrapper.
Wrapped == 10
Wrap(x) == IF x > Wrapped THEN x ELSE x + Wrapped
\* The optimizer whose state a (possibly wrapped) optimizer holds.
Unwrap(x) == IF x > Wrapped THEN x - Wrapped ELSE x

\* The values of an optimizer's state: tensors, other leaves, collections.
Tensor(device, data) == [kind |-> "tensor", device |-> device, data |-> data]
Other(data) == [kind |-> "other", data |-> data]
Collection(items) == [kind |-> "collection", items |-> items]

\* The state a freshly built optimizer holds (one entry per parameter).
FreshState(o) ==
    IF o % 2 = 1
    THEN << Collection(<< Tensor("cpu", o), Other(o) >>), Tensor("cpu", o + 1) >>
    ELSE << Tensor("cpu", o) >>

\* ------------------------------------------------------------------ state

VARIABLES
    setup_optimizers_in_pre_dispatch, \* training_type_plugin's capability flag
    is_data_parallel,                 \* isinstance(training_type_plugin, DataParallelPlugin)
    lightning_module,                 \* training_type_plugin.lightning_module (or None)
    has_optimizer_state,              \* hasattr(training_type_plugin, "optimizer_state")
    precision_kind,                   \* the class of precision_plugin: "apex", "native", "other"
    model,                            \* training_type_plugin.model
    optimizers,                       \* self.optimizers
    lr_schedulers,                    \* self.lr_schedulers
    optimizer_frequencies,            \* self.optimizer_frequencies
    opt_state,                        \* opt.state of every optimizer object
    contexts,                         \* the precision plugin's active step contexts
    calls,                            \* the calls made by the last operation, in order
    written,                          \* the attributes the last operation assigned
    last,                             \* the last operation: name, arguments, outcome, error
    result,                           \* what the last operation returned
    run                               \* the lifecycle operations called so far

plugin_vars == << setup_optimizers_in_pre_dispatch, is_data_parallel, lightning_module,
                  has_optimizer_state, precision_kind >>

vars == << setup_optimizers_in_pre_dispatch, is_data_parallel, lightning_module,
           has_optimizer_state, precision_kind, model, optimizers, lr_schedulers, optimizer_frequencies, opt_state,
           contexts, calls, written, last, result, run >>

\* training_type_plugin.root_device
root_device == "cuda:0"

\* ------------------------------------------------------------------ calls

\* One call in the trace.  A call that raises returns nothing.
Call(name, args, ret, raised) ==
    [name |-> name, args |-> args, ret |-> IF raised THEN << >> ELSE ret,
     raised |-> raised]

Names(cs) == [i \in DOMAIN cs |-> cs[i].name]

\* The Accelerator as an operation finds it: nothing called, nothing assigned.
Self ==
    [model |-> model, optimizers |-> optimizers, lr_schedulers |-> lr_schedulers,
     optimizer_frequencies |-> optimizer_frequencies, opt_state |-> opt_state,
     contexts |-> contexts, calls |-> << >>, written |-> {}, raised |-> FALSE,
     error |-> None, result |-> None]

\* A statement runs only if no earlier statement raised.
Enter(s, name, args) ==
    IF s.raised THEN s
    ELSE [s EXCEPT !.calls = Append(@, Call(name, args, << >>, FALSE))]

\* A call to a collaborator: it raises when the environment says so.
Delegate(s, name, args, ret, env) ==
    IF s.raised THEN s
    ELSE [s EXCEPT !.calls = Append(@, Call(name, args, ret, env.raiser = name)),
                   !.raised = (env.raiser = name),
                   !.error = IF env.raiser = name THEN "PluginError" ELSE None]

\* raise error
Raise(s, error) == IF s.raised THEN s ELSE [s EXCEPT !.raised = TRUE, !.error = error]

\* An assignment to an attribute of the Accelerator.
Assign(s, attr, value) ==
    IF s.raised THEN s
    ELSE [[s EXCEPT ![attr] = value] EXCEPT !.written = @ \cup {attr}]

Return(s, value) == IF s.raised THEN s ELSE [s EXCEPT !.result = value]

\* The return value of the last call made (the call just delegated).
Ret(s) == s.calls[Len(s.calls)].ret

\* ------------------------------------------------------------------ the plugins' answers

Seq1(n) == [i \in 1..n |-> i]

\* The schedulers init_optimizers builds with n optimizers.
Schedulers(n) == IF n = 0 THEN << >> ELSE << 5 >>

\* What init_optimizers may return: (optimizers, lr_schedulers, frequencies),
\* the frequencies either unused (empty) or one per optimizer.
InitOptimizersResults ==
    UNION { { << Seq1(n), Schedulers(n), f >> : f \in { << >>, [i \in 1..n |-> 1] } } :
            n \in 0..MaxOptimizers }

NoResult == << << >>, << >>, << >> >>

\* What precision_plugin.connect may return for what it is given: the three
\* objects as they are, or each of them wrapped.
ConnectKinds == {"same", "wrap"}
Connect(kind, m, opts, scheds) ==
    IF kind = "same" THEN << m, opts, scheds >>
    ELSE << Wrap(m), [i \in DOMAIN opts |-> Wrap(opts[i])],
            [i \in DOMAIN scheds |-> Wrap(scheds[i])] >>

\* The environment's answers to one operation: the call that raises (if
\* any), and what the calls that return give back.
Answers(raisers, entries, inits, connects) ==
    [raiser : raisers, fail_entry : entries, init_optimizers : inits, connect : connects]

\* ------------------------------------------------------------------ optimizer state

RECURSIVE HasTensor(_)
HasTensor(v) ==
    CASE v.kind = "tensor" -> TRUE
      [] v.kind = "other" -> FALSE
      [] OTHER -> \E i \in DOMAIN v.items : HasTensor(v.items[i])

\* move_data_to_device on one tensor.
move_data_to_device(t, device) == [t EXCEPT !.device = device]

\* apply_to_collection(v, torch.Tensor, move_data_to_device, device)
RECURSIVE apply_to_collection(_, _)
apply_to_collection(v, device) ==
    CASE v.kind = "tensor" -> move_data_to_device(v, device)
      [] v.kind = "other" -> v
      [] OTHER -> [v EXCEPT !.items =
                     [i \in DOMAIN v.items |-> apply_to_collection(v.items[i], device)]]

\* The (optimizer, key) pairs the two loops of _move_optimizer_state visit.
RECURSIVE StateEntries(_, _)
StateEntries(opts, st) ==
    IF opts = << >> THEN << >>
    ELSE [p \in DOMAIN st[Unwrap(Head(opts))] |-> << Unwrap(Head(opts)), p >>]
         \o StateEntries(Tail(opts), st)

\* The entries whose move can raise: those that hold a tensor.
FailableEntries(opts, st) ==
    LET es == StateEntries(opts, st)
    IN  {i \in DOMAIN es : HasTensor(st[es[i][1]][es[i][2]])}

\* opt.state[p] = apply_to_collection(v, ...): the move of a tensor may raise.
move_entry(s, e, i, device, env) ==
    IF s.raised THEN s
    ELSE LET v == s.opt_state[e[1]][e[2]]
             fails == /\ env.raiser = "apply_to_collection"
                      /\ env.fail_entry = i
                      /\ HasTensor(v)
             s1 == [s EXCEPT !.calls = Append(@, Call("apply_to_collection",
                                                     << e[1], e[2], device >>, << >>, fails)),
                             !.raised = fails,
                             !.error = IF fails THEN "PluginError" ELSE None]
         IN  IF fails THEN s1
             ELSE [s1 EXCEPT !.opt_state[e[1]][e[2]] = apply_to_collection(v, device)]

RECURSIVE move_entries(_, _, _, _, _)
move_entries(s, entries, i, device, env) ==
    IF i > Len(entries) THEN s
    ELSE move_entries(move_entry(s, entries[i], i, device, env), entries, i + 1, device, env)

\* _move_optimizer_state as it would be if it ignored the device it is given.
move_optimizer_state_to_root(s, device, env) ==
    IF s.raised THEN s
    ELSE LET s1 == Enter(s, "self._move_optimizer_state", << device >>)
         IN  move_entries(s1, StateEntries(s1.optimizers, s1.opt_state), 1, root_device, env)

\* Accelerator._move_optimizer_state
move_optimizer_state(s, device, env) ==
    IF s.raised THEN s
    ELSE LET d == IF device # None THEN device ELSE root_device
             s1 == Enter(s, "self._move_optimizer_state", << device >>)
         IN  move_entries(s1, StateEntries(s1.optimizers, s1.opt_state), 1, d, env)

\* ------------------------------------------------------------------ setup

\* setup_optimizers as it would be if it did not store the frequencies.
setup_optimizers_without_frequencies(s, trainer, env) ==
    IF s.raised THEN s
    ELSE LET s1 == Enter(s, "self.setup_optimizers", << trainer >>)
         IN  IF trainer \notin {"FITTING", "TUNING"} THEN s1
             ELSE LET s2 == Delegate(s1, "training_type_plugin.init_optimizers",
                                     << trainer, lightning_module >>,
                                     env.init_optimizers, env)
                      s3 == Assign(s2, "optimizers", Ret(s2)[1])
                  IN  Assign(s3, "lr_schedulers", Ret(s2)[2])

\* setup_optimizers as it would be without the test of the trainer's mode.
setup_optimizers_in_any_mode(s, trainer, env) ==
    IF s.raised THEN s
    ELSE LET s1 == Enter(s, "self.setup_optimizers", << trainer >>)
             s2 == Delegate(s1, "training_type_plugin.init_optimizers",
                            << trainer, lightning_module >>,
                            env.init_optimizers, env)
             s3 == Assign(s2, "optimizers", Ret(s2)[1])
             s4 == Assign(s3, "lr_schedulers", Ret(s2)[2])
         IN  Assign(s4, "optimizer_frequencies", Ret(s2)[3])

\* setup_optimizers as it would be if it emptied the optimizers before it
\* asked for the new ones.
setup_optimizers_clearing_first(s, trainer, env) ==
    IF s.raised THEN s
    ELSE LET s1 == Enter(s, "self.setup_optimizers", << trainer >>)
         IN  IF trainer \notin {"FITTING", "TUNING"} THEN s1
             ELSE LET s2 == Delegate(Assign(s1, "optimizers", << >>),
                                     "training_type_plugin.init_optimizers",
                                     << trainer, lightning_module >>,
                                     env.init_optimizers, env)
                      s3 == Assign(s2, "optimizers", Ret(s2)[1])
                      s4 == Assign(s3, "lr_schedulers", Ret(s2)[2])
                  IN  Assign(s4, "optimizer_frequencies", Ret(s2)[3])

\* Accelerator.setup_optimizers
setup_optimizers(s, trainer, env) ==
    IF s.raised THEN s
    ELSE LET s1 == Enter(s, "self.setup_optimizers", << trainer >>)
         IN  IF trainer \notin {"FITTING", "TUNING"} THEN s1
             ELSE LET s2 == Delegate(s1, "training_type_plugin.init_optimizers",
                                     << trainer, lightning_module >>,
                                     env.init_optimizers, env)
                      s3 == Assign(s2, "optimizers", Ret(s2)[1])
                      s4 == Assign(s3, "lr_schedulers", Ret(s2)[2])
                  IN  Assign(s4, "optimizer_frequencies", Ret(s2)[3])

\* Accelerator.setup_training_type_plugin
setup_training_type_plugin(s, env) ==
    Delegate(Enter(s, "self.setup_training_type_plugin", << >>),
             "training_type_plugin.setup", << >>, << >>, env)

\* Accelerator.setup_precision_plugin
setup_precision_plugin(s, env) ==
    IF s.raised THEN s
    ELSE LET s1 == Enter(s, "self.setup_precision_plugin", << >>)
             s2 == Delegate(s1, "precision_plugin.connect",
                            << s1.model, s1.optimizers, s1.lr_schedulers >>,
                            Connect(env.connect, s1.model, s1.optimizers, s1.lr_schedulers),
                            env)
             s3 == Assign(s2, "model", Ret(s2)[1])
             s4 == Assign(s3, "optimizers", Ret(s2)[2])
         IN  Assign(s4, "lr_schedulers", Ret(s2)[3])

\* setup as it would be if it built the optimizers whatever the flag says.
setup_whatever_the_flag(s, trainer, env) ==
    setup_precision_plugin(setup_optimizers(setup_training_type_plugin(s, env), trainer, env),
                           env)

\* setup as it would be if it connected the precision plugin before it
\* built the optimizers.
setup_connecting_first(s, trainer, env) ==
    LET s1 == setup_precision_plugin(setup_training_type_plugin(s, env), env)
    IN  IF ~setup_optimizers_in_pre_dispatch
        THEN setup_optimizers(s1, trainer, env)
        ELSE s1

\* Accelerator.setup
setup(s, trainer, env) ==
    LET s1 == setup_training_type_plugin(s, env)
        s2 == IF ~setup_optimizers_in_pre_dispatch
              THEN setup_optimizers(s1, trainer, env)
              ELSE s1
    IN  setup_precision_plugin(s2, env)

\* pre_dispatch as it would be if it moved the optimizer state after the
\* training-type plugin's hook.
pre_dispatch_moving_late(s, trainer, env) ==
    LET s1 == Delegate(s, "training_type_plugin.pre_dispatch", << >>, << >>, env)
        s2 == move_optimizer_state(s1, None, env)
        s3 == IF setup_optimizers_in_pre_dispatch
              THEN setup_optimizers(s2, trainer, env)
              ELSE s2
    IN  Delegate(s3, "precision_plugin.pre_dispatch", << >>, << >>, env)

\* pre_dispatch as it would be if it built the optimizers before it moved
\* their state.
pre_dispatch_building_first(s, trainer, env) ==
    LET s1 == IF setup_optimizers_in_pre_dispatch
              THEN setup_optimizers(s, trainer, env)
              ELSE s
        s2 == move_optimizer_state(s1, None, env)
        s3 == Delegate(s2, "training_type_plugin.pre_dispatch", << >>, << >>, env)
    IN  Delegate(s3, "precision_plugin.pre_dispatch", << >>, << >>, env)

\* Accelerator.pre_dispatch
pre_dispatch(s, trainer, env) ==
    LET s1 == move_optimizer_state(s, None, env)
        s2 == Delegate(s1, "training_type_plugin.pre_dispatch", << >>, << >>, env)
        s3 == IF setup_optimizers_in_pre_dispatch
              THEN setup_optimizers(s2, trainer, env)
              ELSE s2
    IN  Delegate(s3, "precision_plugin.pre_dispatch", << >>, << >>, env)

\* ------------------------------------------------------------------ the lifecycle operations

\* The number of calls of init_optimizers in a trace.
InitCalls(cs) ==
    Cardinality({i \in DOMAIN cs : cs[i].name = "training_type_plugin.init_optimizers"})

\* An operation ends: the Accelerator is left as the method left it.
Commit(s, op, args) ==
    /\ model' = s.model
    /\ optimizers' = s.optimizers
    /\ lr_schedulers' = s.lr_schedulers
    /\ optimizer_frequencies' = s.optimizer_frequencies
    /\ opt_state' = s.opt_state
    /\ contexts' = s.contexts
    /\ calls' = s.calls
    /\ written' = s.written
    /\ result' = s.result
    /\ last' = [op |-> op, args |-> args,
                outcome |-> IF s.raised THEN "raised" ELSE "returned", error |-> s.error]
    /\ UNCHANGED plugin_vars

\* Whether setup_optimizers, once reached, calls init_optimizers.
Fitting(trainer) == trainer \in {"FITTING", "TUNING"}

\* A lifecycle operation joins the run.
Record(s, op, trainer) ==
    /\ Len(run) < MaxRun
    /\ run' = Append(run, [op |-> op, fitting |-> Fitting(trainer), returned |-> ~s.raised,
                           inits |-> InitCalls(s.calls)])

\* The triples the environment has to choose from when init_optimizers is
\* (is not) going to be called.
Inits(called) == IF called THEN InitOptimizersResults ELSE {NoResult}

SetupEnv(trainer) ==
    LET inits == Inits(Fitting(trainer) /\ ~setup_optimizers_in_pre_dispatch)
    IN  Answers({"training_type_plugin.setup", "training_type_plugin.init_optimizers"},
                {0}, {NoResult}, {"same"})
        \cup Answers({"precision_plugin.connect"}, {0}, inits, {"same"})
        \cup Answers({None}, {0}, inits, ConnectKinds)

Setup ==
    \E trainer \in TrainerFn :
        \E env \in SetupEnv(trainer) :
            LET s == setup(Self, trainer, env)
            IN  Record(s, "setup", trainer) /\ Commit(s, "setup", << trainer >>)

PreDispatchEnv(trainer) ==
    LET inits == Inits(Fitting(trainer) /\ setup_optimizers_in_pre_dispatch)
    IN  Answers({"apply_to_collection"}, FailableEntries(optimizers, opt_state),
                {NoResult}, {"same"})
        \cup Answers({"training_type_plugin.pre_dispatch",
                      "training_type_plugin.init_optimizers"}, {0}, {NoResult}, {"same"})
        \cup Answers({None, "precision_plugin.pre_dispatch"}, {0}, inits, {"same"})

PreDispatch ==
    \E trainer \in TrainerFn :
        \E env \in PreDispatchEnv(trainer) :
            LET s == pre_dispatch(Self, trainer, env)
            IN  Record(s, "pre_dispatch", trainer) /\ Commit(s, "pre_dispatch", << trainer >>)

SetupOptimizersEnv(trainer) ==
    Answers({"training_type_plugin.init_optimizers"}, {0}, {NoResult}, {"same"})
    \cup Answers({None}, {0}, Inits(Fitting(trainer)), {"same"})

SetupOptimizers ==
    \E trainer \in TrainerFn :
        \E env \in SetupOptimizersEnv(trainer) :
            LET s == setup_optimizers(Self, trainer, env)
            IN  /\ Record(s, "setup_optimizers", trainer)
                /\ Commit(s, "setup_optimizers", << trainer >>)

MoveEnv ==
    Answers({"apply_to_collection"}, FailableEntries(optimizers, opt_state),
            {NoResult}, {"same"})
    \cup Answers({None}, {0}, {NoResult}, {"same"})

MoveOptimizerState ==
    \E device \in Devices \cup {None}, env \in MoveEnv :
        LET s == move_optimizer_state(Self, device, env)
        IN  /\ Record(s, "_move_optimizer_state", None)
            /\ Commit(s, "_move_optimizer_state", << device >>)

\* ------------------------------------------------------------------ steps

\* `with ctx:` is entered: the context is active unless entering raises.
enter_context(s, ctx, env) ==
    IF s.raised THEN s
    ELSE LET s1 == Delegate(s, "__enter__", << ctx >>, << >>, env)
         IN  IF s1.raised THEN s1 ELSE [s1 EXCEPT !.contexts = @ \cup {ctx}]

\* Leaving the context as a plain call after the body would: not when the
\* body raised.
exit_context_on_return_only(s, s0, ctx) ==
    IF s0.raised \/ s.raised THEN s
    ELSE [s EXCEPT !.calls = Append(@, Call("__exit__", << ctx >>, << >>, FALSE)),
                   !.contexts = @ \ {ctx}]

\* `with ctx:` is left, by the body's return or by its exception, which
\* goes on to the caller: s0 is the state the body started in.
exit_context(s, s0, ctx) ==
    IF s0.raised THEN s
    ELSE [s EXCEPT !.calls = Append(@, Call("__exit__", << ctx >>, << >>, FALSE)),
                   !.contexts = @ \ {ctx}]

\* *step_kwargs.values(): the values in insertion order.
Values(step_kwargs) == [i \in DOMAIN step_kwargs |-> step_kwargs[i][2]]

\* with self.precision_plugin.<ctx>(): return self.training_type_plugin.<step>(...)
step_in_context(s, ctx, step, step_kwargs, env) ==
    LET s1 == enter_context(s, ctx, env)
        s2 == Delegate(s1, step, Values(step_kwargs), << env.output >>, env)
        s3 == Return(s2, Ret(s2)[1])
    IN  exit_context(s3, s1, ctx)

\* Accelerator.training_step
training_step(s, step_kwargs, env) ==
    step_in_context(s, "precision_plugin.train_step_context",
                    "training_type_plugin.training_step", step_kwargs, env)

\* Accelerator.validation_step
validation_step(s, step_kwargs, env) ==
    step_in_context(s, "precision_plugin.val_step_context",
                    "training_type_plugin.validation_step", step_kwargs, env)

\* Accelerator.test_step
test_step(s, step_kwargs, env) ==
    step_in_context(s, "precision_plugin.test_step_context",
                    "training_type_plugin.test_step", step_kwargs, env)

\* Accelerator.predict_step
predict_step(s, step_kwargs, env) ==
    step_in_context(s, "precision_plugin.predict_step_context",
                    "training_type_plugin.predict_step", step_kwargs, env)

\* ------------------------------------------------------------------ backward

\* backward as it would be with the two post_backward hooks in the other order.
backward_post_hooks_swapped(s, closure_loss, env) ==
    LET s1 == Delegate(s, "training_type_plugin.pre_backward", << closure_loss >>, << 0 >>, env)
        s2 == Delegate(s1, "precision_plugin.pre_backward",
                       << lightning_module, closure_loss >>, << env.pre_backward >>, env)
        loss1 == Ret(s2)[1]
        s3 == Delegate(s2, "precision_plugin.backward",
                       << lightning_module, loss1, "args" >>, << 0 >>, env)
        s4 == Delegate(s3, "training_type_plugin.post_backward", << loss1 >>, << 0 >>, env)
        s5 == Delegate(s4, "precision_plugin.post_backward",
                       << lightning_module, loss1 >>, << env.post_backward >>, env)
    IN  Return(s5, Ret(s5)[1])

\* backward as it would be if precision_plugin.pre_backward's result were
\* dropped: the later stages get the caller's loss.
backward_dropping_pre_backward(s, closure_loss, env) ==
    LET s1 == Delegate(s, "training_type_plugin.pre_backward", << closure_loss >>, << 0 >>, env)
        s2 == Delegate(s1, "precision_plugin.pre_backward",
                       << lightning_module, closure_loss >>, << env.pre_backward >>, env)
        s3 == Delegate(s2, "precision_plugin.backward",
                       << lightning_module, closure_loss, "args" >>, << 0 >>, env)
        s4 == Delegate(s3, "precision_plugin.post_backward",
                       << lightning_module, closure_loss >>, << env.post_backward >>, env)
        loss2 == Ret(s4)[1]
        s5 == Delegate(s4, "training_type_plugin.post_backward", << loss2 >>, << 0 >>, env)
    IN  Return(s5, loss2)

\* Accelerator.backward.  The hooks of the training-type plugin and
\* precision_plugin.backward return no loss (0 stands for it).
backward(s, closure_loss, env) ==
    LET s1 == Delegate(s, "training_type_plugin.pre_backward", << closure_loss >>, << 0 >>, env)
        s2 == Delegate(s1, "precision_plugin.pre_backward",
                       << lightning_module, closure_loss >>, << env.pre_backward >>, env)
        loss1 == Ret(s2)[1]
        s3 == Delegate(s2, "precision_plugin.backward",
                       << lightning_module, loss1, "args" >>, << 0 >>, env)
        s4 == Delegate(s3, "precision_plugin.post_backward",
                       << lightning_module, loss1 >>, << env.post_backward >>, env)
        loss2 == Ret(s4)[1]
        s5 == Delegate(s4, "training_type_plugin.post_backward", << loss2 >>, << 0 >>, env)
    IN  Return(s5, loss2)

\* ------------------------------------------------------------------ batch_to_device

\* batch_to_device as it would be without the test for DataParallelPlugin.
batch_to_device_whatever_the_plugin(s, batch, device, dataloader_idx, env) ==
    LET module == lightning_module
        d == IF device # None THEN device ELSE root_device
    IN  IF module # None
        THEN LET s1 == Delegate(s, "lightning_module._apply_batch_transfer_handler",
                                << batch, d, dataloader_idx >>, << env.transferred >>, env)
             IN  Return(s1, Ret(s1)[1])
        ELSE LET s1 == Delegate(s, "move_data_to_device", << batch, d >>,
                                << apply_to_collection(batch, d) >>, env)
             IN  Return(s1, Ret(s1)[1])

\* Accelerator.batch_to_device
batch_to_device(s, batch, device, dataloader_idx, env) ==
    LET module == lightning_module
        d == IF device # None THEN device ELSE root_device
    IN  IF module # None /\ ~is_data_parallel
        THEN LET s1 == Delegate(s, "lightning_module._apply_batch_transfer_handler",
                                << batch, d, dataloader_idx >>, << env.transferred >>, env)
             IN  Return(s1, Ret(s1)[1])
        ELSE LET s1 == Delegate(s, "move_data_to_device", << batch, d >>,
                                << apply_to_collection(batch, d) >>, env)
             IN  Return(s1, Ret(s1)[1])

\* ------------------------------------------------------------------ device queries

\* Accelerator.get_device_stats
get_device_stats(s, device) == Raise(s, "NotImplementedError")

\* Accelerator.auto_device_count: the body is a docstring, and nothing in
\* the class (no ABCMeta) keeps an instance from being made and asked.
auto_device_count(s) == Return(s, None)

\* ------------------------------------------------------------------ the training operations

Losses == {1, 2}

BackwardEnv ==
    [raiser : {"training_type_plugin.pre_backward", "precision_plugin.pre_backward"},
     pre_backward : {1}, post_backward : {1}]
    \cup [raiser : {"precision_plugin.backward", "precision_plugin.post_backward"},
          pre_backward : Losses, post_backward : {1}]
    \cup [raiser : {None, "training_type_plugin.post_backward"},
          pre_backward : Losses, post_backward : Losses]

Backward ==
    \E closure_loss \in Losses, env \in BackwardEnv :
        /\ Commit(backward(Self, closure_loss, env), "backward", << closure_loss >>)
        /\ UNCHANGED run

\* The step_kwargs the loops pass: the batch and its index, then (with
\* several optimizers) the optimizer's index.
StepKwargs ==
    { << << "batch", "a batch" >>, << "batch_idx", "0" >> >>,
      << << "batch", "a batch" >>, << "batch_idx", "0" >>, << "optimizer_idx", "1" >> >> }

StepOutputs == {None, "an output"}

StepEnv(step) ==
    [raiser : {"__enter__", step}, output : {None}]
    \cup [raiser : {None}, output : StepOutputs]

TrainingStep ==
    \E step_kwargs \in StepKwargs, env \in StepEnv("training_type_plugin.training_step") :
        /\ Commit(training_step(Self, step_kwargs, env), "training_step", << step_kwargs >>)
        /\ UNCHANGED run

ValidationStep ==
    \E step_kwargs \in StepKwargs, env \in StepEnv("training_type_plugin.validation_step") :
        /\ Commit(validation_step(Self, step_kwargs, env), "validation_step", << step_kwargs >>)
        /\ UNCHANGED run

TestStep ==
    \E step_kwargs \in StepKwargs, env \in StepEnv("training_type_plugin.test_step") :
        /\ Commit(test_step(Self, step_kwargs, env), "test_step", << step_kwargs >>)
        /\ UNCHANGED run

PredictStep ==
    \E step_kwargs \in StepKwargs, env \in StepEnv("training_type_plugin.predict_step") :
        /\ Commit(predict_step(Self, step_kwargs, env), "predict_step", << step_kwargs >>)
        /\ UNCHANGED run

Batches == { Collection(<< Tensor("cpu", 1), Other(2) >>) }

\* What the module's batch-transfer hook may return: the batch moved, or
\* (a user's override) the batch as it is.
BatchToDeviceEnv(batch, d) ==
    [raiser : {"lightning_module._apply_batch_transfer_handler", "move_data_to_device"},
     transferred : {batch}]
    \cup [raiser : {None}, transferred : {batch, apply_to_collection(batch, d)}]

BatchToDevice ==
    \E batch \in Batches, device \in Devices \cup {None}, dataloader_idx \in {0, 1} :
        \E env \in BatchToDeviceEnv(batch, IF device # None THEN device ELSE root_device) :
            /\ Commit(batch_to_device(Self, batch, device, dataloader_idx, env),
                      "batch_to_device", << batch, device, dataloader_idx >>)
            /\ UNCHANGED run

GetDeviceStats ==
    \E device \in Devices :
        /\ Commit(get_device_stats(Self, device), "get_device_stats", << device >>)
        /\ UNCHANGED run

AutoDeviceCount ==
    Commit(auto_device_count(Self), "auto_device_count", << >>) /\ UNCHANGED run

\* ------------------------------------------------------------------ plain delegations

\* Accelerator.setup_environment
setup_environment(s, env) ==
    Delegate(s, "training_type_plugin.setup_environment", << >>, << >>, env)

\* dispatch as it would be if it went on to the precision plugin after the
\* training-type plugin's dispatch raised (an except clause that swallows).
dispatch_swallowing(s, trainer, env) ==
    LET s1 == Delegate(s, "training_type_plugin.dispatch", << trainer >>, << >>, env)
        s2 == [s1 EXCEPT !.raised = FALSE, !.error = None]
    IN  Delegate(s2, "precision_plugin.dispatch", << trainer >>, << >>, env)

\* Accelerator.dispatch
dispatch(s, trainer, env) ==
    LET s1 == Delegate(s, "training_type_plugin.dispatch", << trainer >>, << >>, env)
    IN  Delegate(s1, "precision_plugin.dispatch", << trainer >>, << >>, env)

\* Accelerator.post_dispatch
post_dispatch(s, trainer, env) ==
    LET s1 == Delegate(s, "training_type_plugin.post_dispatch", << trainer >>, << >>, env)
    IN  Delegate(s1, "precision_plugin.post_dispatch", << >>, << >>, env)

\* teardown as it would be if it also dropped the optimizers.
teardown_dropping_optimizers(s, env) ==
    Assign(Delegate(s, "training_type_plugin.teardown", << >>, << >>, env),
           "optimizers", << >>)

\* Accelerator.teardown
teardown(s, env) ==
    Delegate(s, "training_type_plugin.teardown", << >>, << >>, env)

\* Accelerator.on_train_start
on_train_start(s, env) ==
    LET s1 == Delegate(s, "training_type_plugin.on_train_start", << >>, << None >>, env)
    IN  Return(s1, Ret(s1)[1])

\* Accelerator.optimizer_step: model = model or self.lightning_module
optimizer_step(s, optimizer, opt_idx, closure, a_model, env) ==
    LET m == IF a_model # None THEN a_model ELSE lightning_module
    IN  Delegate(s, "precision_plugin.optimizer_step",
                 << m, optimizer, opt_idx, closure >>, << >>, env)

\* Accelerator.optimizer_zero_grad: the call is made on the lightning module,
\* and there is no attribute to call when the module is None.
optimizer_zero_grad(s, current_epoch, batch_idx, optimizer, opt_idx, env) ==
    LET model_ref == lightning_module
    IN  IF model_ref = None THEN Raise(s, "AttributeError")
        ELSE Delegate(s, "lightning_module.optimizer_zero_grad",
                      << current_epoch, batch_idx, optimizer, opt_idx >>, << >>, env)

\* optimizer.state_dict(): the export of the state the optimizer holds.
state_dict(s, optimizer) == [state |-> s.opt_state[Unwrap(optimizer)]]

\* optimizer_state as it would be if it never asked the plugin.
optimizer_state_by_default(s, optimizer, env) ==
    LET s1 == Delegate(s, "optimizer.state_dict", << optimizer >>,
                       << state_dict(s, optimizer) >>, env)
    IN  Return(s1, Ret(s1)[1])

\* Accelerator.optimizer_state:
\* getattr(training_type_plugin, "optimizer_state", lambda x: x.state_dict())(optimizer)
optimizer_state(s, optimizer, env) ==
    IF has_optimizer_state
    THEN LET s1 == Delegate(s, "training_type_plugin.optimizer_state", << optimizer >>,
                            << env.collated >>, env)
         IN  Return(s1, Ret(s1)[1])
    ELSE LET s1 == Delegate(s, "optimizer.state_dict", << optimizer >>,
                            << state_dict(s, optimizer) >>, env)
         IN  Return(s1, Ret(s1)[1])

\* amp_backend as it would be without the test for the native plugin.
amp_backend_apex_only(s) ==
    IF precision_kind = "apex" THEN Return(s, "AMPType.APEX")
    ELSE Return(s, None)

\* Accelerator.amp_backend
amp_backend(s) ==
    IF precision_kind = "apex" THEN Return(s, "AMPType.APEX")
    ELSE IF precision_kind = "native" THEN Return(s, "AMPType.NATIVE")
    ELSE Return(s, None)

\* The model property as it would be if the Accelerator kept the model it
\* was constructed with.
model_getter_cached(s) == Return(s, 1)

\* Accelerator.model (the property): read from the plugin at every use.
model_getter(s) == Return(s, s.model)

\* Accelerator.model (the setter): written to the plugin.
model_setter(s, new_model) == Assign(s, "model", new_model)

\* model_sharded_context as it would be with plain calls around the yield
\* in place of the with statement: a body that raises skips the release.
model_sharded_context_without_with(s, body, env) ==
    LET ctx == "training_type_plugin.model_sharded_context"
        s1 == enter_context(s, ctx, env)
        s2 == IF s1.raised THEN s1
              ELSE [s1 EXCEPT !.calls = Append(@, Call("yield", << >>, << >>, body = "raises")),
                              !.raised = (body = "raises"),
                              !.error = IF body = "raises" THEN "BodyError" ELSE None]
    IN  IF s2.raised THEN s2 ELSE exit_context(s2, s1, ctx)

\* Accelerator.model_sharded_context, used as `with
\* accelerator.model_sharded_context(): body`.  The yield is where the
\* caller's body runs; what the body raises is thrown in at the yield, leaves
\* the inner with statement (which releases the plugin's context) and goes
\* on to the caller.
model_sharded_context(s, body, env) ==
    LET ctx == "training_type_plugin.model_sharded_context"
        s1 == enter_context(s, ctx, env)
        s2 == IF s1.raised THEN s1
              ELSE [s1 EXCEPT !.calls = Append(@, Call("yield", << >>, << >>, body = "raises")),
                              !.raised = (body = "raises"),
                              !.error = IF body = "raises" THEN "BodyError" ELSE None]
    IN  exit_context(s2, s1, ctx)

\* ------------------------------------------------------------------ the other operations

\* The answers to an operation that makes the calls named: one of them
\* raises, or none does.
Raisers(names) == [raiser : names \cup {None}]

\* An operation that is not a lifecycle operation ends.
Done(s, op, args) == Commit(s, op, args) /\ UNCHANGED run

SetupEnvironment ==
    \E env \in Raisers({"training_type_plugin.setup_environment"}) :
        Done(setup_environment(Self, env), "setup_environment", << >>)

Dispatch ==
    \E trainer \in {"FITTING", "TESTING"} :
        \E env \in Raisers({"training_type_plugin.dispatch", "precision_plugin.dispatch"}) :
            Done(dispatch(Self, trainer, env), "dispatch", << trainer >>)

PostDispatch ==
    \E trainer \in {"FITTING", "TESTING"} :
        \E env \in Raisers({"training_type_plugin.post_dispatch",
                            "precision_plugin.post_dispatch"}) :
            Done(post_dispatch(Self, trainer, env), "post_dispatch", << trainer >>)

Teardown ==
    \E env \in Raisers({"training_type_plugin.teardown"}) :
        Done(teardown(Self, env), "teardown", << >>)

OnTrainStart ==
    \E env \in Raisers({"training_type_plugin.on_train_start"}) :
        Done(on_train_start(Self, env), "on_train_start", << >>)

\* The optimizer objects a caller may pass.
Optimizers == 1..MaxOptimizers

OptimizerStep ==
    \E optimizer \in Optimizers, a_model \in {None, "a module"} :
        \E env \in Raisers({"precision_plugin.optimizer_step"}) :
            Done(optimizer_step(Self, optimizer, optimizer - 1, "closure", a_model, env),
                 "optimizer_step", << optimizer, optimizer - 1, "closure", a_model >>)

OptimizerZeroGrad ==
    \E optimizer \in Optimizers :
        \E env \in Raisers({"lightning_module.optimizer_zero_grad"}) :
            Done(optimizer_zero_grad(Self, 0, 0, optimizer, optimizer - 1, env),
                 "optimizer_zero_grad", << 0, 0, optimizer, optimizer - 1 >>)

\* What the plugin's optimizer_state may return: the optimizer's own export,
\* or a state collated from all processes.
OptimizerStateEnv(optimizer) ==
    [raiser : {"training_type_plugin.optimizer_state", "optimizer.state_dict"},
     collated : {[state |-> << >>]}]
    \cup [raiser : {None},
          collated : IF has_optimizer_state
                     THEN {state_dict(Self, optimizer), [state |-> << Tensor("cpu", 0) >>]}
                     ELSE {[state |-> << >>]}]

OptimizerState ==
    \E optimizer \in Optimizers :
        \E env \in OptimizerStateEnv(optimizer) :
            Done(optimizer_state(Self, optimizer, env), "optimizer_state", << optimizer >>)

AmpBackend == Done(amp_backend(Self), "amp_backend", << >>)

\* The models the plugin may be given.
Models == {1, 2}

ModelGetter == Done(model_getter(Self), "model", << >>)

ModelSetter ==
    \E new_model \in Models :
        Done(model_setter(Self, new_model), "model.setter", << new_model >>)

\* The models the plugin may come to hold by itself.
PluginModels == {3}

\* The plugin's model is changed without the Accelerator (the plugin wraps
\* it, or a caller assigns training_type_plugin.model).
PluginSetsModel ==
    \E new_model \in PluginModels :
        Done([Self EXCEPT !.model = new_model], "training_type_plugin.model =",
             << new_model >>)

SetupPrecisionPluginEnv ==
    [raiser : {"precision_plugin.connect"}, connect : {"same"}]
    \cup [raiser : {None}, connect : ConnectKinds]

\* Accelerator.setup_precision_plugin, called by itself.
SetupPrecisionPlugin ==
    \E env \in SetupPrecisionPluginEnv :
        Done(setup_precision_plugin(Self, env), "setup_precision_plugin", << >>)

ModelShardedContext ==
    \E body \in {"returns", "raises"} :
        \E env \in [raiser : IF body = "returns" THEN {None, "__enter__"} ELSE {None}] :
            Done(model_sharded_context(Self, body, env), "model_sharded_context", << body >>)

\* ------------------------------------------------------------------ specification

\* Accelerator.__init__: nothing has been called yet.
Fresh ==
    /\ model = 1
    /\ opt_state = [o \in 1..MaxOptimizers |-> FreshState(o)]
    /\ contexts = {}
    /\ calls = << >>
    /\ written = {}
    /\ last = [op |-> "__init__", args |-> << >>, outcome |-> "returned", error |-> None]
    /\ result = None
    /\ run = << >>

\* Accelerator.__init__: the two plugins are kept, there are no optimizers.
Constructed ==
    /\ optimizers = << >>
    /\ lr_schedulers = << >>
    /\ optimizer_frequencies = << >>
    /\ Fresh

Init ==
    /\ setup_optimizers_in_pre_dispatch \in BOOLEAN
    /\ is_data_parallel \in BOOLEAN
    /\ lightning_module \in {None, "lightning_module"}
    /\ has_optimizer_state \in BOOLEAN
    /\ precision_kind \in PrecisionKinds
    /\ Constructed

\* The operations that build, connect and move the optimizers.
NextLifecycle ==
    \/ Setup
    \/ PreDispatch
    \/ SetupOptimizers
    \/ MoveOptimizerState

\* The operations of the training loop.
NextTraining ==
    \/ Backward
    \/ TrainingStep
    \/ ValidationStep
    \/ TestStep
    \/ PredictStep
    \/ BatchToDevice
    \/ GetDeviceStats
    \/ AutoDeviceCount

\* The operations that hand one call on to a plugin, the properties, and
\* the plugin's model changing under the Accelerator.
NextDelegation ==
    \/ SetupEnvironment
    \/ Dispatch
    \/ PostDispatch
    \/ Teardown
    \/ OnTrainStart
    \/ OptimizerStep
    \/ OptimizerZeroGrad
    \/ OptimizerState
    \/ AmpBackend
    \/ ModelGetter
    \/ ModelSetter
    \/ PluginSetsModel
    \/ SetupPrecisionPlugin
    \/ ModelShardedContext

Next == NextLifecycle \/ NextTraining \/ NextDelegation

\* Every operation, in any order, on any pair of plugins.
Spec == Init /\ [][Next]_vars

\* The lifecycle operations, in any order.  They read neither the kind of
\* either plugin nor (but to pass it on) the lightning module, so one value
\* of each stands for all.
LifecycleInit ==
    /\ setup_optimizers_in_pre_dispatch \in BOOLEAN
    /\ is_data_parallel = FALSE
    /\ lightning_module = "lightning_module"
    /\ has_optimizer_state = FALSE
    /\ precision_kind = "other"
    /\ Constructed

Lifecycle == LifecycleInit /\ [][NextLifecycle]_vars

\* The operations of the training loop, in any order, on an Accelerator
\* that holds what a call of setup_optimizers left.  They do not read
\* setup_optimizers_in_pre_dispatch.
TrainingInit ==
    /\ setup_optimizers_in_pre_dispatch = FALSE
    /\ is_data_parallel \in BOOLEAN
    /\ lightning_module \in {None, "lightning_module"}
    /\ has_optimizer_state = FALSE
    /\ precision_kind = "other"
    /\ \E r \in InitOptimizersResults :
           /\ optimizers = r[1]
           /\ lr_schedulers = r[2]
           /\ optimizer_frequencies = r[3]
    /\ Fresh

Training == TrainingInit /\ [][NextTraining]_vars

\* The delegations and properties, in any order, on any pair of plugins
\* and an Accelerator that holds what a call of setup_optimizers left.
DelegationInit ==
    /\ setup_optimizers_in_pre_dispatch = FALSE
    /\ is_data_parallel = FALSE
    /\ lightning_module \in {None, "lightning_module"}
    /\ has_optimizer_state \in BOOLEAN
    /\ precision_kind \in PrecisionKinds
    /\ \E r \in InitOptimizersResults :
           /\ optimizers = r[1]
           /\ lr_schedulers = r[2]
           /\ optimizer_frequencies = r[3]
    /\ Fresh

Delegation == DelegationInit /\ [][NextDelegation]_vars

\* The operations of the training loop and the delegations together (with
\* setup_precision_plugin among them), in any order, on one pair of plugins
\* and an Accelerator that holds what a call of setup_optimizers left.
NextOther ==
    \/ NextTraining
    \/ NextDelegation

OthersInit ==
    /\ setup_optimizers_in_pre_dispatch = FALSE
    /\ is_data_parallel = FALSE
    /\ lightning_module = "lightning_module"
    /\ has_optimizer_state = TRUE
    /\ precision_kind = "other"
    /\ \E r \in InitOptimizersResults :
           /\ optimizers = r[1]
           /\ lr_schedulers = r[2]
           /\ optimizer_frequencies = r[3]
    /\ Fresh

Others == OthersInit /\ [][NextOther]_vars

\* The five operations that make several calls to the plugins, in any order.
NextDelegating ==
    \/ Setup
    \/ PreDispatch
    \/ Dispatch
    \/ PostDispatch
    \/ Backward

Delegating == LifecycleInit /\ [][NextDelegating]_vars

\* ------------------------------------------------------------------ claims

\* The calls of a trace that are not moves of optimizer state.
RECURSIVE Steps(_)
Steps(cs) ==
    IF cs = << >> THEN << >>
    ELSE IF Head(cs).name = "apply_to_collection" THEN Steps(Tail(cs))
         ELSE << Head(cs) >> \o Steps(Tail(cs))

\* The trace cs is the sequence of calls `expected`, cut short after the
\* call that raised if one did: nothing is called twice, nothing is
\* skipped, nothing follows a call that raised.
Follows(cs, expected, outcome) ==
    /\ Len(cs) <= Len(expected)
    /\ Names(cs) = SubSeq(expected, 1, Len(cs))
    /\ \A i \in 1..(Len(cs) - 1) : ~cs[i].raised
    /\ (outcome = "returned") <=> (Len(cs) = Len(expected) /\ \A i \in DOMAIN cs : ~cs[i].raised)
    /\ (outcome = "raised") => (cs # << >> /\ cs[Len(cs)].raised)

\* What setup_optimizers calls for this trainer.
SetupOptimizersCalls(trainer) ==
    << "self.setup_optimizers" >>
    \o (IF Fitting(trainer) THEN << "training_type_plugin.init_optimizers" >> ELSE << >>)

\* Entries i and i+1 of the run are setup(trainer) and then
\* pre_dispatch(trainer), the trainer in the same mode for both.
SetupThenPreDispatch(i) ==
    /\ run[i].op = "setup"
    /\ run[i + 1].op = "pre_dispatch"
    /\ run[i].fitting = run[i + 1].fitting

\* C1 as stated: in a run of setup(trainer) then pre_dispatch(trainer), for
\* any trainer, init_optimizers is called exactly once: in setup if the
\* flag is false, in pre_dispatch if it is true.
C1_OnceForAnyTrainer ==
    \A i \in 1..(Len(run) - 1) :
        (SetupThenPreDispatch(i) /\ run[i].returned /\ run[i + 1].returned)
        => /\ run[i].inits + run[i + 1].inits = 1
           /\ (run[i].inits = 1) <=> ~setup_optimizers_in_pre_dispatch
           /\ (run[i + 1].inits = 1) <=> setup_optimizers_in_pre_dispatch

\* C1, amended: in a run of setup(trainer) then pre_dispatch(trainer),
\* init_optimizers is never called in both and never twice; it is called in
\* setup only if the flag is false and in pre_dispatch only if it is true;
\* and when both calls return it is called exactly once if the trainer is
\* FITTING or TUNING (in the call the flag names) and not at all otherwise.
C1_OnceWhenFitting ==
    \A i \in 1..(Len(run) - 1) :
        SetupThenPreDispatch(i)
        => /\ run[i].inits + run[i + 1].inits <= 1
           /\ (run[i].inits = 1) => ~setup_optimizers_in_pre_dispatch
           /\ (run[i + 1].inits = 1) => setup_optimizers_in_pre_dispatch
           /\ (run[i].returned /\ run[i + 1].returned)
              => /\ run[i].inits =
                      (IF run[i].fitting /\ ~setup_optimizers_in_pre_dispatch THEN 1 ELSE 0)
                 /\ run[i + 1].inits =
                      (IF run[i].fitting /\ setup_optimizers_in_pre_dispatch THEN 1 ELSE 0)

\* C1's case: a fitting run whose plugin defers the optimizers has called
\* setup and pre_dispatch, and pre_dispatch has built them.
C1_Witness ==
    /\ Len(run) = 2
    /\ SetupThenPreDispatch(1)
    /\ run[1].returned /\ run[2].returned
    /\ run[1].fitting
    /\ setup_optimizers_in_pre_dispatch
    /\ run[1].inits = 0 /\ run[2].inits = 1

\* The calls of setup(trainer), in order.
SetupCalls(trainer) ==
    << "self.setup_training_type_plugin", "training_type_plugin.setup" >>
    \o (IF ~setup_optimizers_in_pre_dispatch THEN SetupOptimizersCalls(trainer) ELSE << >>)
    \o << "self.setup_precision_plugin", "precision_plugin.connect" >>

\* The call of that name in the trace (there is one).
TheCall(cs, name) == cs[CHOOSE i \in DOMAIN cs : cs[i].name = name]
Called(cs, name) == \E i \in DOMAIN cs : cs[i].name = name

\* C2: every setup(trainer) calls training_type_plugin.setup() first and
\* precision_plugin.connect() last (nothing follows a call that raises);
\* with the flag false setup_optimizers runs between the two, and connect
\* receives the optimizers and schedulers init_optimizers just returned;
\* with the flag true setup_optimizers is not called in setup.
C2_SetupOrder ==
    (last.op = "setup")
    => /\ Follows(calls, SetupCalls(last.args[1]), last.outcome)
       /\ calls[2].name = "training_type_plugin.setup"
       /\ setup_optimizers_in_pre_dispatch => ~Called(calls, "self.setup_optimizers")
       /\ (Called(calls, "precision_plugin.connect")
           /\ Called(calls, "training_type_plugin.init_optimizers"))
          => /\ TheCall(calls, "precision_plugin.connect").args[2]
                = TheCall(calls, "training_type_plugin.init_optimizers").ret[1]
             /\ TheCall(calls, "precision_plugin.connect").args[3]
                = TheCall(calls, "training_type_plugin.init_optimizers").ret[2]

\* C2's case: a setup that built two optimizers and handed them to connect.
C2_Witness ==
    /\ last.op = "setup"
    /\ last.outcome = "returned"
    /\ ~setup_optimizers_in_pre_dispatch
    /\ Len(calls) = 6
    /\ Len(calls[6].args[2]) = 2
    /\ calls[6].args[2] = calls[4].ret[1]

\* The five hooks of backward, in order.
BackwardCalls ==
    << "training_type_plugin.pre_backward", "precision_plugin.pre_backward",
       "precision_plugin.backward", "precision_plugin.post_backward",
       "training_type_plugin.post_backward" >>

\* C3: every backward(loss) calls the five hooks in this order, each once,
\* a hook only after the one before it has returned: all five when backward
\* returns, and those up to the hook that raises when one does.
C3_BackwardOrder ==
    (last.op = "backward") => Follows(calls, BackwardCalls, last.outcome)

\* C3's case: a backward that returned.
C3_Witness ==
    /\ last.op = "backward"
    /\ last.outcome = "returned"
    /\ Names(calls) = BackwardCalls

\* C4: in backward(loss) precision pre_backward receives the caller's
\* loss; precision backward and post_backward receive what pre_backward
\* returned; training-type post_backward receives, and backward returns,
\* what precision post_backward returned.  What the training-type hooks and
\* precision backward return goes nowhere.
C4_LossThreading ==
    (last.op = "backward")
    => /\ calls[1].args = << last.args[1] >>
       /\ Len(calls) >= 2 => calls[2].args = << lightning_module, last.args[1] >>
       /\ Len(calls) >= 3 => calls[3].args = << lightning_module, calls[2].ret[1], "args" >>
       /\ Len(calls) >= 4 => calls[4].args = << lightning_module, calls[2].ret[1] >>
       /\ Len(calls) >= 5 => calls[5].args = << calls[4].ret[1] >>
       /\ (last.outcome = "returned") => (Len(calls) = 5 /\ result = calls[4].ret[1])

\* C4's case: a backward in which both precision stages changed the loss.
C4_Witness ==
    /\ last.op = "backward"
    /\ last.outcome = "returned"
    /\ calls[2].ret[1] # last.args[1]
    /\ calls[4].ret[1] # calls[2].ret[1]

\* C5 as stated: after setup the optimizers and the frequencies (when
\* used) have the same length, and no operation replaces one of the two
\* lists without the other.
C5_AlwaysReplacedTogether ==
    /\ (last.op = "setup" /\ last.outcome = "returned" /\ optimizer_frequencies # << >>)
       => Len(optimizers) = Len(optimizer_frequencies)
    /\ ("optimizers" \in written) <=> ("optimizer_frequencies" \in written)

\* C5, amended: after setup the optimizers and the frequencies (when used)
\* have the same length; an operation assigns either nothing, or (in
\* setup_optimizers) the three lists together, or (in
\* setup_precision_plugin) the model, the optimizers and the schedulers, or
\* both; so the frequencies are never replaced without the optimizers, but
\* every setup that returns replaces the optimizers, and the frequencies
\* with them only if it built them.
C5_ReplacedBySetupAlone ==
    /\ (last.op = "setup" /\ last.outcome = "returned" /\ optimizer_frequencies # << >>)
       => Len(optimizers) = Len(optimizer_frequencies)
    /\ written \in { {}, {"optimizers", "lr_schedulers", "optimizer_frequencies"},
                     {"model", "optimizers", "lr_schedulers"},
                     {"model", "optimizers", "lr_schedulers", "optimizer_frequencies"} }
    /\ ("optimizer_frequencies" \in written)
       <=> (\E i \in DOMAIN calls : /\ calls[i].name = "training_type_plugin.init_optimizers"
                                    /\ ~calls[i].raised)
    /\ ("model" \in written)
       <=> (\E i \in DOMAIN calls : /\ calls[i].name = "precision_plugin.connect"
                                    /\ ~calls[i].raised)
    /\ (last.op = "setup" /\ last.outcome = "returned") => ("optimizers" \in written)

\* C5's case: a setup that replaced the optimizers it held (by what connect
\* returned) and left the frequencies, which are in use, alone.
C5_Witness ==
    /\ last.op = "setup"
    /\ last.outcome = "returned"
    /\ written = {"model", "optimizers", "lr_schedulers"}
    /\ optimizer_frequencies # << >>
    /\ optimizers = << 11, 12 >>

\* C6 as stated: get_device_stats and auto_device_count, not overridden,
\* both raise NotImplementedError and neither returns.
C6_BothUnimplemented ==
    (last.op \in {"get_device_stats", "auto_device_count"})
    => (last.outcome = "raised" /\ last.error = "NotImplementedError")

\* C7: a step that is setup_optimizers(trainer) calls nothing and leaves
\* the three lists as they were when the trainer is neither FITTING nor
\* TUNING; otherwise it calls init_optimizers once, with the trainer and the
\* lightning module, and stores what that returns.
C7_Step ==
    (last'.op = "setup_optimizers")
    => IF ~Fitting(last'.args[1])
       THEN /\ Names(calls') = << "self.setup_optimizers" >>
            /\ written' = {}
            /\ last'.outcome = "returned"
            /\ UNCHANGED << optimizers, lr_schedulers, optimizer_frequencies >>
       ELSE /\ Names(calls') = << "self.setup_optimizers",
                                  "training_type_plugin.init_optimizers" >>
            /\ calls'[2].args = << last'.args[1], lightning_module >>
            /\ IF calls'[2].raised
               THEN UNCHANGED << optimizers, lr_schedulers, optimizer_frequencies >>
               ELSE << optimizers', lr_schedulers', optimizer_frequencies' >> = calls'[2].ret

C7_SetupOptimizersGuard == [][C7_Step]_vars

\* C7's case: setup_optimizers with a trainer that is not fitting, on an
\* Accelerator that holds optimizers, schedulers and frequencies.
C7_Witness ==
    /\ last.op = "setup_optimizers"
    /\ ~Fitting(last.args[1])
    /\ optimizers # << >>
    /\ lr_schedulers # << >>
    /\ optimizer_frequencies # << >>

\* C8: batch_to_device makes one call: the generic move_data_to_device if
\* the plugin is DataParallel or no module is attached, the module's
\* batch-transfer hook (with the dataloader's index) otherwise; either gets
\* the batch and the given device, or root_device if none is given, and
\* batch_to_device returns what the call returns.
C8_BatchToDevicePath ==
    (last.op = "batch_to_device")
    => LET d == IF last.args[2] # None THEN last.args[2] ELSE root_device
       IN  /\ Len(calls) = 1
           /\ IF is_data_parallel \/ lightning_module = None
              THEN /\ calls[1].name = "move_data_to_device"
                   /\ calls[1].args = << last.args[1], d >>
                   /\ ~calls[1].raised
                      => calls[1].ret = << apply_to_collection(last.args[1], d) >>
              ELSE /\ calls[1].name = "lightning_module._apply_batch_transfer_handler"
                   /\ calls[1].args = << last.args[1], d, last.args[3] >>
           /\ (last.outcome = "returned") <=> ~calls[1].raised
           /\ (last.outcome = "returned") => (result = calls[1].ret[1])

\* C8's case: a module is attached, the plugin is DataParallel, no device
\* is given.
C8_Witness ==
    /\ last.op = "batch_to_device"
    /\ last.outcome = "returned"
    /\ is_data_parallel
    /\ lightning_module # None
    /\ last.args[2] = None

\* The calls of pre_dispatch(trainer) other than the moves, in order.
PreDispatchCalls(trainer) ==
    << "self._move_optimizer_state", "training_type_plugin.pre_dispatch" >>
    \o (IF setup_optimizers_in_pre_dispatch THEN SetupOptimizersCalls(trainer) ELSE << >>)
    \o << "precision_plugin.pre_dispatch" >>

MoveFailed(cs) == \E i \in DOMAIN cs : cs[i].name = "apply_to_collection" /\ cs[i].raised

\* Every tensor of v is on the device.
RECURSIVE AllOn(_, _)
AllOn(v, device) ==
    CASE v.kind = "tensor" -> v.device = device
      [] v.kind = "other" -> TRUE
      [] OTHER -> \A i \in DOMAIN v.items : AllOn(v.items[i], device)

\* C9: every pre_dispatch(trainer) runs _move_optimizer_state (to the root
\* device), then the training-type plugin's pre_dispatch, then
\* setup_optimizers if and only if the flag is true, then the precision
\* plugin's pre_dispatch, nothing following a call that raises; every move
\* of optimizer state comes before the first plugin hook, and once that hook
\* is called the optimizers that were held have their tensors on the root
\* device.
C9_PreDispatchOrder ==
    (last.op = "pre_dispatch")
    => /\ calls[1].name = "self._move_optimizer_state"
       /\ calls[1].args = << None >>
       /\ IF MoveFailed(calls)
          THEN /\ last.outcome = "raised"
               /\ calls[Len(calls)].name = "apply_to_collection"
               /\ Names(Steps(calls)) = << "self._move_optimizer_state" >>
          ELSE Follows(Steps(calls), PreDispatchCalls(last.args[1]), last.outcome)
       /\ \A i \in DOMAIN calls :
              (calls[i].name = "apply_to_collection")
              => /\ calls[i].args[3] = root_device
                 /\ \A j \in 1..(i - 1) :
                        calls[j].name \in {"self._move_optimizer_state", "apply_to_collection"}
       /\ (Called(calls, "training_type_plugin.pre_dispatch") /\ "optimizers" \notin written)
          => /\ \A i \in DOMAIN optimizers :
                    \A p \in DOMAIN opt_state[Unwrap(optimizers[i])] :
                        AllOn(opt_state[Unwrap(optimizers[i])][p], root_device)
             /\ [i \in DOMAIN StateEntries(optimizers, opt_state) |->
                    << calls[i + 1].name, calls[i + 1].args[1], calls[i + 1].args[2] >>]
                = [i \in DOMAIN StateEntries(optimizers, opt_state) |->
                    << "apply_to_collection", StateEntries(optimizers, opt_state)[i][1],
                       StateEntries(optimizers, opt_state)[i][2] >>]

\* C9's case: a pre_dispatch that moved the state of two optimizers, ran
\* both hooks and, between them, built the optimizers.
C9_Witness ==
    /\ last.op = "pre_dispatch"
    /\ last.outcome = "returned"
    /\ setup_optimizers_in_pre_dispatch
    /\ Called(calls, "training_type_plugin.init_optimizers")
    /\ Len(calls) = 8

\* The context and the step of each of the four step methods.
ContextOf(op) ==
    CASE op = "training_step" -> "precision_plugin.train_step_context"
      [] op = "validation_step" -> "precision_plugin.val_step_context"
      [] op = "test_step" -> "precision_plugin.test_step_context"
      [] op = "predict_step" -> "precision_plugin.predict_step_context"

StepOf(op) ==
    CASE op = "training_step" -> "training_type_plugin.training_step"
      [] op = "validation_step" -> "training_type_plugin.validation_step"
      [] op = "test_step" -> "training_type_plugin.test_step"
      [] op = "predict_step" -> "training_type_plugin.predict_step"

StepMethods == {"training_step", "validation_step", "test_step", "predict_step"}

\* C10: each of the four step methods enters its own precision context
\* first; if entering raises nothing else is called; otherwise the
\* training-type plugin's step is called with the values of step_kwargs and
\* the context is left after it, whether the step returned or raised; the
\* method returns what the step returned or raises what it raised; and no
\* context is active after any operation.
C10_StepContexts ==
    /\ contexts = {}
    /\ (last.op \in StepMethods)
       => /\ calls[1].name = "__enter__"
          /\ calls[1].args = << ContextOf(last.op) >>
          /\ IF calls[1].raised
             THEN Len(calls) = 1 /\ last.outcome = "raised"
             ELSE /\ Len(calls) = 3
                  /\ calls[2].name = StepOf(last.op)
                  /\ calls[2].args = Values(last.args[1])
                  /\ calls[3].name = "__exit__"
                  /\ calls[3].args = << ContextOf(last.op) >>
                  /\ (last.outcome = "raised") <=> calls[2].raised
                  /\ (last.outcome = "returned") => (result = calls[2].ret[1])

\* C10's case: a step that raised inside its context.
C10_Witness ==
    /\ last.op = "validation_step"
    /\ last.outcome = "raised"
    /\ Len(calls) = 3
    /\ calls[2].raised
    /\ calls[3].name = "__exit__"

\* C11: model_sharded_context acquires the training-type plugin's context
\* first; if acquiring raises the body does not run; otherwise the body runs
\* at the yield and the context is released once after it, whether the body
\* returned or raised, and what the body raised reaches the caller; the
\* context is not held after the operation.
C11_ShardedContext ==
    /\ "training_type_plugin.model_sharded_context" \notin contexts
    /\ (last.op = "model_sharded_context")
       => /\ calls[1].name = "__enter__"
          /\ calls[1].args = << "training_type_plugin.model_sharded_context" >>
          /\ IF calls[1].raised
             THEN Len(calls) = 1 /\ last.outcome = "raised" /\ last.error = "PluginError"
             ELSE /\ Names(calls) = << "__enter__", "yield", "__exit__" >>
                  /\ calls[3].args = << "training_type_plugin.model_sharded_context" >>
                  /\ calls[2].raised <=> (last.args[1] = "raises")
                  /\ (last.outcome = "raised") <=> (last.args[1] = "raises")
                  /\ (last.outcome = "raised") => (last.error = "BodyError")

\* C11's case: a body that raised inside the context.
C11_Witness ==
    /\ last.op = "model_sharded_context"
    /\ last.args = << "raises" >>
    /\ last.outcome = "raised"
    /\ Len(calls) = 3
    /\ calls[3].name = "__exit__"

\* The three lists.
Lists == << optimizers, lr_schedulers, optimizer_frequencies >>

\* The operations on whose call paths the lists are replaced:
\* setup_precision_plugin is the step of setup that does so.
ReplacingOps == {"setup", "pre_dispatch", "setup_optimizers", "setup_precision_plugin"}

\* C12: a step that is any operation other than setup, pre_dispatch and
\* setup_optimizers (and setup's own setup_precision_plugin) assigns none
\* of optimizers, lr_schedulers and optimizer_frequencies and leaves all
\* three as they were.
C12_Step ==
    (last'.op \notin ReplacingOps)
    => /\ UNCHANGED Lists
       /\ written' \cap {"optimizers", "lr_schedulers", "optimizer_frequencies"} = {}

C12_ListsReplacedBySetupOnly == [][C12_Step]_vars

\* C12's case: teardown on an Accelerator that holds connected optimizers,
\* schedulers and frequencies.
C12_Witness ==
    /\ last.op = "teardown"
    /\ last.outcome = "returned"
    /\ optimizers = << 11, 12 >>
    /\ lr_schedulers = << 15 >>
    /\ optimizer_frequencies = << 1, 1 >>

\* The calls each of the five operations makes when none raises.
DelegatingOps == {"setup", "pre_dispatch", "dispatch", "post_dispatch", "backward"}

ExpectedCalls(op, args) ==
    CASE op = "setup" -> SetupCalls(args[1])
      [] op = "pre_dispatch" -> PreDispatchCalls(args[1])
      [] op = "dispatch" -> << "training_type_plugin.dispatch", "precision_plugin.dispatch" >>
      [] op = "post_dispatch" -> << "training_type_plugin.post_dispatch",
                                    "precision_plugin.post_dispatch" >>
      [] op = "backward" -> BackwardCalls

\* C13: in setup, pre_dispatch, dispatch, post_dispatch and backward, the
\* operation raises exactly when one of its calls raised; that call was made
\* once, is the last call the operation made (the calls before it are the
\* operation's usual ones, those after it are not made), and its error is
\* the operation's error.
C13_SingleAttempt ==
    (last.op \in DelegatingOps)
    => LET raisedAt == {i \in DOMAIN calls : calls[i].raised}
           n == Len(calls)
           made == Names(Steps(calls))
           expected == ExpectedCalls(last.op, last.args)
       IN  /\ (last.outcome = "raised") <=> (raisedAt # {})
           /\ Len(made) <= Len(expected)
           /\ made = SubSeq(expected, 1, Len(made))
           /\ (raisedAt = {}) => (made = expected)
           /\ (raisedAt # {})
              => /\ raisedAt = {n}
                 /\ last.error = "PluginError"
                 /\ Cardinality({j \in DOMAIN calls : /\ calls[j].name = calls[n].name
                                                      /\ calls[j].args = calls[n].args}) = 1
                 /\ (calls[n].name # "apply_to_collection") => (made[Len(made)] = calls[n].name)

\* C13's case: dispatch in which the training-type plugin's dispatch raised.
C13_Witness ==
    /\ last.op = "dispatch"
    /\ last.outcome = "raised"
    /\ Names(calls) = << "training_type_plugin.dispatch" >>

\* C14: optimizer_state(optimizer) makes one call with the optimizer, the
\* plugin's optimizer_state if the plugin has that attribute and the
\* optimizer's state_dict otherwise, and returns what the call returns:
\* without the attribute, the export of the state the optimizer holds.
C14_OptimizerState ==
    (last.op = "optimizer_state")
    => /\ Len(calls) = 1
       /\ calls[1].name = IF has_optimizer_state
                          THEN "training_type_plugin.optimizer_state"
                          ELSE "optimizer.state_dict"
       /\ calls[1].args = << last.args[1] >>
       /\ (last.outcome = "returned") <=> ~calls[1].raised
       /\ (last.outcome = "returned") => (result = calls[1].ret[1])
       /\ (last.outcome = "returned" /\ ~has_optimizer_state)
          => (result = [state |-> opt_state[Unwrap(last.args[1])]])

\* C14's case: the plugin has optimizer_state and returns a state that is
\* not the optimizer's own export.
C14_Witness ==
    /\ last.op = "optimizer_state"
    /\ last.outcome = "returned"
    /\ has_optimizer_state
    /\ result = [state |-> << Tensor("cpu", 0) >>]
    /\ result # [state |-> opt_state[Unwrap(last.args[1])]]

\* new is old with every tensor on the device and nothing else changed.
RECURSIVE Relocated(_, _, _)
Relocated(old, new, device) ==
    CASE old.kind = "tensor" ->
             new.kind = "tensor" /\ new.device = device /\ new.data = old.data
      [] old.kind = "other" -> new.kind = "other" /\ new.data = old.data
      [] OTHER -> /\ new.kind = "collection"
                  /\ Len(new.items) = Len(old.items)
                  /\ \A i \in DOMAIN old.items : Relocated(old.items[i], new.items[i], device)

\* C15: a step that is _move_optimizer_state(device) leaves the list of
\* optimizers, the keys of every optimizer's state and the state of the
\* optimizers not held as they were; when it returns, every entry of every
\* held optimizer has the same structure as before, its tensors on the
\* device (root_device if none is given) and its other leaves unchanged;
\* when a move raises, every entry is either so moved or untouched.
C15_Step ==
    (last'.op = "_move_optimizer_state")
    => LET d == IF last'.args[1] # None THEN last'.args[1] ELSE root_device
           held == {Unwrap(optimizers[i]) : i \in DOMAIN optimizers}
       IN  /\ UNCHANGED << optimizers, lr_schedulers, optimizer_frequencies >>
           /\ DOMAIN opt_state' = DOMAIN opt_state
           /\ \A o \in DOMAIN opt_state :
                  /\ DOMAIN opt_state'[o] = DOMAIN opt_state[o]
                  /\ (o \notin held) => (opt_state'[o] = opt_state[o])
                  /\ (o \in held)
                     => \A p \in DOMAIN opt_state[o] :
                            \/ Relocated(opt_state[o][p], opt_state'[o][p], d)
                            \/ /\ last'.outcome = "raised"
                               /\ opt_state'[o][p] = opt_state[o][p]

C15_MoveOptimizerState == [][C15_Step]_vars

\* C15's case: two optimizers held, no device given: a tensor inside a
\* collection is now on the root device, beside a leaf that is no tensor.
C15_Witness ==
    /\ last.op = "_move_optimizer_state"
    /\ last.outcome = "returned"
    /\ last.args = << None >>
    /\ Len(optimizers) = 2
    /\ opt_state[1][1].items[1].device = root_device
    /\ opt_state[1][1].items[2].kind = "other"
    /\ opt_state[2][1].device = root_device

\* C16: amp_backend returns APEX for an Apex precision plugin, NATIVE for
\* a native-AMP one and None for any other, calls nothing, and does so in
\* every state the other operations lead to.
C16_AmpBackend ==
    (last.op = "amp_backend")
    => /\ last.outcome = "returned"
       /\ calls = << >>
       /\ result = CASE precision_kind = "apex" -> "AMPType.APEX"
                     [] precision_kind = "native" -> "AMPType.NATIVE"
                     [] OTHER -> None

\* C16's case: a native-AMP plugin, asked after setup_precision_plugin has
\* replaced the model and the optimizers.
C16_Witness ==
    /\ last.op = "amp_backend"
    /\ precision_kind = "native"
    /\ result = "AMPType.NATIVE"
    /\ model = 11
    /\ optimizers = << 11, 12 >>

\* C17: a step that is setup_optimizers(trainer) with a FITTING or TUNING
\* trainer either returns, having assigned all three lists, which are then
\* the triple init_optimizers returned, or raises, having assigned none of
\* them, which are then as they were.
C17_Step ==
    (last'.op = "setup_optimizers" /\ Fitting(last'.args[1]))
    => \/ /\ last'.outcome = "returned"
          /\ written' = {"optimizers", "lr_schedulers", "optimizer_frequencies"}
          /\ << optimizers', lr_schedulers', optimizer_frequencies' >>
             = TheCall(calls', "training_type_plugin.init_optimizers").ret
       \/ /\ last'.outcome = "raised"
          /\ written' = {}
          /\ UNCHANGED << optimizers, lr_schedulers, optimizer_frequencies >>

C17_AllOrNothing == [][C17_Step]_vars

\* C17's case: init_optimizers raised on an Accelerator that held
\* optimizers, schedulers and frequencies, and still holds them.
C17_Witness ==
    /\ last.op = "setup_optimizers"
    /\ Fitting(last.args[1])
    /\ last.outcome = "raised"
    /\ optimizers = << 1, 2 >>
    /\ lr_schedulers = << 5 >>
    /\ optimizer_frequencies = << 1, 1 >>

\* C18: a step that reads accelerator.model returns the model the plugin
\* holds at that moment; one that sets it sets the plugin's; and a step that
\* is setup_precision_plugin calls connect once with the model, the
\* optimizers and the schedulers held before it and, when connect returns,
\* leaves the plugin's model, the optimizers and the schedulers equal to the
\* three values it returned (the frequencies as they were).
C18_Step ==
    /\ (last'.op = "model")
       => /\ model' = model
          /\ result' = model
          /\ calls' = << >>
    /\ (last'.op = "model.setter") => (model' = last'.args[1])
    /\ (last'.op = "setup_precision_plugin")
       => /\ Names(calls') = << "self.setup_precision_plugin", "precision_plugin.connect" >>
          /\ calls'[2].args = << model, optimizers, lr_schedulers >>
          /\ UNCHANGED optimizer_frequencies
          /\ IF last'.outcome = "returned"
             THEN /\ << model', optimizers', lr_schedulers' >> = calls'[2].ret
                  /\ written' = {"model", "optimizers", "lr_schedulers"}
             ELSE /\ UNCHANGED << model, optimizers, lr_schedulers >>
                  /\ written' = {}

C18_PluginHoldsTheModel == [][C18_Step]_vars

\* C18's case: accelerator.model read after the plugin came to hold another
\* model by itself.
C18_Witness ==
    /\ last.op = "model"
    /\ model \in PluginModels
    /\ result = model

\* C19: with the flag true and a FITTING or TUNING trainer, (a) a setup
\* that is the first operation calls connect with the constructor's model
\* and the two empty lists; (b) after setup then pre_dispatch, both having
\* returned, pre_dispatch has entered _move_optimizer_state before it called
\* init_optimizers, has moved nothing and has not called connect, the three
\* lists are the triple init_optimizers returned, and the state of the new
\* optimizers is where it was built, not on the root device.
C19_BuiltAfterTheMove ==
    /\ ( /\ setup_optimizers_in_pre_dispatch
         /\ Len(run) = 1
         /\ run[1].op = "setup"
         /\ run[1].fitting
         /\ Called(calls, "precision_plugin.connect") )
       => /\ TheCall(calls, "precision_plugin.connect").args = << 1, << >>, << >> >>
          /\ ~Called(calls, "training_type_plugin.init_optimizers")
    /\ ( /\ setup_optimizers_in_pre_dispatch
         /\ Len(run) = 2
         /\ SetupThenPreDispatch(1)
         /\ run[1].fitting
         /\ run[1].returned
         /\ run[2].returned )
       => /\ last.op = "pre_dispatch"
          /\ calls[1].name = "self._move_optimizer_state"
          /\ ~Called(calls, "apply_to_collection")
          /\ ~Called(calls, "precision_plugin.connect")
          /\ InitCalls(calls) = 1
          /\ << optimizers, lr_schedulers, optimizer_frequencies >>
             = TheCall(calls, "training_type_plugin.init_optimizers").ret
          /\ \A i \in DOMAIN optimizers :
                 opt_state[optimizers[i]] = FreshState(optimizers[i])

\* C19's case: setup then pre_dispatch with the flag true built two
\* optimizers, whose tensors are still on the cpu.
C19_Witness ==
    /\ setup_optimizers_in_pre_dispatch
    /\ Len(run) = 2
    /\ SetupThenPreDispatch(1)
    /\ run[1].fitting
    /\ run[1].returned
    /\ run[2].returned
    /\ optimizers = << 1, 2 >>
    /\ opt_state[1][2].device = "cpu"
    /\ opt_state[2][1].device = "cpu"

====
